---- MODULE Spec2Model ----
(***************************************************************************)
(* S.U.S.M.I AI Service (apps/ai-service/main.py): the four HTTP handlers  *)
(* health_check, chat, analyze and suggest, the process environment they   *)
(* read, the outbound provider calls they make, and the single asyncio     *)
(* event loop that runs them.                                              *)
(*                                                                         *)
(* Python values are encoded as follows.                                   *)
(*   Optional[T]   <<>> is None, <<v>> is the value v                      *)
(*   float         the decimal literal as a string ("0.7")                 *)
(*   list          a sequence; dict / pydantic model: a record            *)
(*   str           a string; the Portuguese literals are written without   *)
(*                 diacritics and the emoji as "[wrench]" (ASCII only)     *)
(***************************************************************************)
EXTENDS FiniteSets, Integers, Sequences, TLC

(* ------------------------------ bounds --------------------------------- *)

\* number of HTTP requests the clients send in the concurrent specification
NumReqs == 2

\* longest message list of a chat request in the single-request specification
MaxMsgs == 2

(* ------------------------------- state ---------------------------------- *)

VARIABLES
  env,       \* os.environ: OPENAI_API_KEY and ANTHROPIC_API_KEY, each Optional[str]
  pc,        \* per request: "idle", "pending" (sent, not yet run by the event
             \* loop), "openai_call" / "anthropic_call" (inside the provider
             \* SDK's create call), "done" (response sent)
  request,   \* per request: the endpoint and the parsed body
  outbound,  \* per request: the provider calls its handler has made, in order
  reply,     \* per request: Optional, what the provider call returned or raised
  response,  \* per request: Optional, the HTTP status and JSON body sent back
  loop       \* Optional: the request whose handler the event loop is running

vars == <<env, pc, request, outbound, reply, response, loop>>

Reqs == 1..NumReqs

(* --------------------------- Python helpers ---------------------------- *)

None == <<>>

Some(v) == <<v>>

\* truth value of an Optional[str]: None and "" are falsy
Truthy(o) == o # None /\ o[1] # ""

\* truth value of an Optional[int]: None and 0 are falsy
TruthyInt(o) == o # None /\ o[1] # 0

\* x or d, for an Optional[str] x
OrStr(o, d) == IF Truthy(o) THEN o[1] ELSE d

\* x or d, for an Optional[int] x
OrInt(o, d) == IF TruthyInt(o) THEN o[1] ELSE d

\* all sequences over S of length at most n
SeqsUpTo(S, n) == UNION {[1..k -> S] : k \in 0..n}

(* ------------------------------ literals -------------------------------- *)

FALLBACK_CONTENT ==
  "[wrench] O servico de IA precisa ser configurado. Por favor, adicione sua chave de API (OpenAI ou Anthropic) no arquivo .env para habilitar respostas inteligentes."

OPENAI_PERSONA ==
  "Voce e o S.U.S.M.I, um assistente inteligente pessoal inspirado no JARVIS.\nVoce e educado, eficiente e prestativo. Voce ajuda o usuario com:\n- Gerenciamento de tarefas e agenda\n- Resposta a perguntas\n- Automacao de atividades\n- Analise de informacoes\n\nResponda sempre em portugues brasileiro, de forma clara e concisa."

ANTHROPIC_PERSONA ==
  "Voce e o S.U.S.M.I, um assistente inteligente pessoal inspirado no JARVIS.\nVoce e educado, eficiente e prestativo. Responda sempre em portugues brasileiro."

ANTHROPIC_MODEL == "claude-3-sonnet-20240229"

ANALYZE_NOT_CONFIGURED == "Configure a chave de API para usar analise de texto."

ANALYZE_SYSTEM == "Voce e um assistente de analise de texto."

(* ------------------------------- chat ----------------------------------- *)

\* chat with the two credential tests in the other order
ChatBranchAnthropicFirst(openai_key, anthropic_key) ==
  IF ~Truthy(openai_key) /\ ~Truthy(anthropic_key) THEN "fallback"
  ELSE IF Truthy(anthropic_key) THEN "anthropic"
  ELSE IF Truthy(openai_key) THEN "openai"
  ELSE "none"

\* which branch of chat runs: the fallback return, the OpenAI branch, the
\* Anthropic branch, or (never, given the first test) the implicit return None
ChatBranch(openai_key, anthropic_key) ==
  IF ~Truthy(openai_key) /\ ~Truthy(anthropic_key) THEN "fallback"
  ELSE IF Truthy(openai_key) THEN "openai"
  ELSE IF Truthy(anthropic_key) THEN "anthropic"
  ELSE "none"

\* the fallback reporting the default model and an empty usage
ChatFallbackAsModel ==
  [status |-> 200,
   body |-> [content |-> FALLBACK_CONTENT, model |-> "gpt-4",
             usage |-> Some([total_tokens |-> 0])]]

ChatFallback ==
  [status |-> 200,
   body |-> [content |-> FALLBACK_CONTENT, model |-> "fallback", usage |-> None]]

\* messages.append(system_prompt) in place of insert(0, ...)
OpenAIMessagesAppended(req) ==
  [i \in 1..Len(req.messages) |->
     [role |-> req.messages[i].role, content |-> req.messages[i].content]]
    \o <<[role |-> "system", content |-> OPENAI_PERSONA]>>

\* messages = [...]; messages.insert(0, system_prompt)
OpenAIMessages(req) ==
  <<[role |-> "system", content |-> OPENAI_PERSONA]>>
    \o [i \in 1..Len(req.messages) |->
          [role |-> req.messages[i].role, content |-> req.messages[i].content]]

\* the arguments of client.chat.completions.create in chat
OpenAIChatCall(req) ==
  [provider |-> "openai",
   model |-> OrStr(req.model, "gpt-4"),
   messages |-> OpenAIMessages(req),
   temperature |-> req.temperature,
   max_tokens |-> req.max_tokens]

\* the comprehension without its if clause
KeepSystem(s) == s

\* [m for m in s if m.role != "system"]
RECURSIVE NotSystem(_)
NotSystem(s) ==
  IF s = <<>> THEN <<>>
  ELSE IF Head(s).role # "system" THEN <<Head(s)>> \o NotSystem(Tail(s))
       ELSE NotSystem(Tail(s))

AnthropicMessages(req) ==
  NotSystem([i \in 1..Len(req.messages) |->
               [role |-> req.messages[i].role, content |-> req.messages[i].content]])

\* the arguments of client.messages.create in chat
AnthropicChatCall(req) ==
  [provider |-> "anthropic",
   model |-> ANTHROPIC_MODEL,
   max_tokens |-> OrInt(req.max_tokens, 1000),
   system |-> ANTHROPIC_PERSONA,
   messages |-> AnthropicMessages(req)]

(* ----------------------- try / except, responses ------------------------ *)

\* the outcome of a handler body: a returned value or a raised exception
Return(v) == [exc |-> None, value |-> Some(v)]

Raise(msg) == [exc |-> Some(msg), value |-> None]

\* the except clause with a fixed detail in place of str(e)
RespondGeneric(result) ==
  IF result.exc # None
  THEN [status |-> 500, body |-> [detail |-> "Internal Server Error"]]
  ELSE [status |-> 200, body |-> result.value[1]]

\* except Exception as e: raise HTTPException(status_code=500, detail=str(e))
Respond(result) ==
  IF result.exc # None
  THEN [status |-> 500, body |-> [detail |-> result.exc[1]]]
  ELSE [status |-> 200, body |-> result.value[1]]

\* response = client.chat.completions.create(...); return ChatResponse(...)
OpenAIChatReturn(rep) ==
  IF rep.raised # None THEN Raise(rep.raised[1])
  ELSE IF Len(rep.choices) = 0 THEN Raise("list index out of range")
  ELSE Return([content |-> rep.choices[1].message.content,
               model |-> rep.model,
               usage |-> Some([prompt_tokens |-> rep.usage.prompt_tokens,
                               completion_tokens |-> rep.usage.completion_tokens,
                               total_tokens |-> rep.usage.total_tokens])])

\* response = client.messages.create(...); return ChatResponse(...)
AnthropicChatReturn(rep) ==
  IF rep.raised # None THEN Raise(rep.raised[1])
  ELSE IF Len(rep.content) = 0 THEN Raise("list index out of range")
  ELSE Return([content |-> rep.content[1].text,
               model |-> rep.model,
               usage |-> Some([input_tokens |-> rep.usage.input_tokens,
                               output_tokens |-> rep.usage.output_tokens])])

(* ------------------------------ analyze --------------------------------- *)

\* the early return with the default task in place of the request's
AnalyzeNotConfiguredDefaultTask(req) ==
  [status |-> 200, body |-> [result |-> ANALYZE_NOT_CONFIGURED, task |-> "summarize"]]

AnalyzeNotConfigured(req) ==
  [status |-> 200, body |-> [result |-> ANALYZE_NOT_CONFIGURED, task |-> req.task]]

\* the prompts dict
Prompts(text) ==
  [summarize |-> "Resuma o seguinte texto de forma concisa:\n\n" \o text,
   extract |-> "Extraia as informacoes principais do seguinte texto:\n\n" \o text,
   classify |-> "Classifique o seguinte texto por categoria e sentimento:\n\n" \o text]

\* d.get(key, default)
DictGet(d, key, default) == IF key \in DOMAIN d THEN d[key] ELSE default

\* the arguments of client.chat.completions.create in analyze
AnalyzeCall(req) ==
  [provider |-> "openai",
   model |-> "gpt-4",
   messages |-> <<[role |-> "system", content |-> ANALYZE_SYSTEM],
                  [role |-> "user",
                   content |-> DictGet(Prompts(req.text), req.task,
                                       Prompts(req.text)["summarize"])]>>,
   temperature |-> Some("0.3")]

\* AnalyzeResponse echoing the task whose template was used
AnalyzeReturnUsedTask(req, rep) ==
  IF rep.raised # None THEN Raise(rep.raised[1])
  ELSE IF Len(rep.choices) = 0 THEN Raise("list index out of range")
  ELSE Return([result |-> rep.choices[1].message.content,
               task |-> IF req.task \in {"summarize", "extract", "classify"}
                        THEN req.task ELSE "summarize"])

\* response = client.chat.completions.create(...); return AnalyzeResponse(...)
AnalyzeReturn(req, rep) ==
  IF rep.raised # None THEN Raise(rep.raised[1])
  ELSE IF Len(rep.choices) = 0 THEN Raise("list index out of range")
  ELSE Return([result |-> rep.choices[1].message.content, task |-> req.task])

(* ------------------------- suggest, health_check ------------------------ *)

\* suggest adding a suggestion taken from its context
SuggestBodyFromContext(context) ==
  [suggestions |-> <<"Voce tem 3 tarefas pendentes para hoje",
                     "Considere agendar uma pausa as 15h",
                     "Seu relatorio mensal esta pendente">>
                   \o (IF context = {} THEN <<>> ELSE <<"Descanse um pouco">>)]

\* suggest giving the third suggestion only until a request has been answered
SuggestBodyOnce(context) ==
  [suggestions |-> <<"Voce tem 3 tarefas pendentes para hoje",
                     "Considere agendar uma pausa as 15h">>
                   \o (IF \E q \in Reqs : pc[q] = "done" THEN <<>>
                       ELSE <<"Seu relatorio mensal esta pendente">>)]

SuggestBody(context) ==
  [suggestions |-> <<"Voce tem 3 tarefas pendentes para hoje",
                     "Considere agendar uma pausa as 15h",
                     "Seu relatorio mensal esta pendente">>]

HealthBody ==
  [status |-> "ok", service |-> "S.U.S.M.I AI Service", version |-> "1.0.0"]

(* ------------------------- inputs of the model -------------------------- *)

Keys == {None, Some(""), Some("sk-test")}

Roles == {"user", "assistant", "system"}

Contents == {"Hi", "Oi"}

ChatMessages == [role : Roles, content : Contents]

\* ChatRequest bodies: every message list up to MaxMsgs, with model,
\* temperature and max_tokens unset (None), falsy or set
ChatRequests ==
  [messages : SeqsUpTo(ChatMessages, MaxMsgs),
   model : {None, Some(""), Some("gpt-3.5-turbo")},
   temperature : {None, Some("0.7")},
   max_tokens : {None, Some(0), Some(50)},
   user_id : {None}]

AnalyzeRequests ==
  [text : {"long text", ""},
   task : {"summarize", "extract", "classify", "unknown", "Summarize"}]

\* suggest's context: dict, as a set of <<key, value>> items
Contexts == {{}, {<<"mood", "tired">>}, {<<"time", "15h">>, <<"mood", "ok">>}}

AllRequests ==
  [endpoint : {"chat"}, body : ChatRequests]
    \cup [endpoint : {"analyze"}, body : AnalyzeRequests]
    \cup [endpoint : {"suggest"}, body : Contexts]
    \cup {[endpoint |-> "health", body |-> None]}

\* the requests of the concurrent specification: a few of each endpoint
FewRequests ==
  [endpoint : {"chat"},
   body : [messages : {<<[role |-> "user", content |-> "Hi"]>>,
                       <<[role |-> "system", content |-> "Oi"],
                         [role |-> "user", content |-> "Hi"]>>},
           model : {None, Some("gpt-3.5-turbo")},
           temperature : {Some("0.7")},
           max_tokens : {Some(1000)},
           user_id : {None}]]
    \cup [endpoint : {"analyze"},
          body : [text : {"long text"}, task : {"summarize", "unknown"}]]
    \cup [endpoint : {"suggest"}, body : {{}, {<<"mood", "tired">>}}]
    \cup {[endpoint |-> "health", body |-> None]}

OpenAIUsage == [prompt_tokens |-> 9, completion_tokens |-> 3, total_tokens |-> 12]

\* what client.chat.completions.create can do: return a completion, return one
\* with no choices, or raise
OpenAIReplies ==
  {[raised |-> None, choices |-> <<[message |-> [content |-> "Ola!"]]>>,
    model |-> "gpt-4-0613", usage |-> OpenAIUsage],
   [raised |-> None, choices |-> <<[message |-> [content |-> "Tudo bem?"]]>>,
    model |-> "gpt-3.5-turbo-0125", usage |-> OpenAIUsage],
   [raised |-> None, choices |-> <<>>,
    model |-> "gpt-4-0613", usage |-> OpenAIUsage],
   [raised |-> Some("Connection error."), choices |-> <<>>,
    model |-> "", usage |-> OpenAIUsage]}

AnthropicUsage == [input_tokens |-> 9, output_tokens |-> 3]

\* what client.messages.create can do
AnthropicReplies ==
  {[raised |-> None, content |-> <<[text |-> "Ola!"]>>,
    model |-> ANTHROPIC_MODEL, usage |-> AnthropicUsage],
   [raised |-> None, content |-> <<>>,
    model |-> ANTHROPIC_MODEL, usage |-> AnthropicUsage],
   [raised |-> Some("Error code: 401 - invalid x-api-key"), content |-> <<>>,
    model |-> "", usage |-> AnthropicUsage]}

NoRequest == [endpoint |-> "none", body |-> None]

(* ------------------------------ actions --------------------------------- *)

Init ==
  /\ env \in [OPENAI_API_KEY : Keys, ANTHROPIC_API_KEY : Keys]
  /\ pc = [r \in Reqs |-> "idle"]
  /\ request = [r \in Reqs |-> NoRequest]
  /\ outbound = [r \in Reqs |-> <<>>]
  /\ reply = [r \in Reqs |-> None]
  /\ response = [r \in Reqs |-> None]
  /\ loop = None

\* a client sends request r, one of the set offered
Receive(r, offered) ==
  /\ pc[r] = "idle"
  /\ \E q \in offered : request' = [request EXCEPT ![r] = q]
  /\ pc' = [pc EXCEPT ![r] = "pending"]
  /\ UNCHANGED <<env, outbound, reply, response, loop>>

\* the event loop is free and runs the handler of pending request r
Scheduled(r, endpoint) ==
  /\ loop = None
  /\ pc[r] = "pending"
  /\ request[r].endpoint = endpoint

\* a handler that returns without calling a provider
Finish(r, resp) ==
  /\ response' = [response EXCEPT ![r] = Some(resp)]
  /\ pc' = [pc EXCEPT ![r] = "done"]
  /\ UNCHANGED <<env, request, outbound, reply, loop>>

\* a handler that enters a provider SDK's synchronous create call: the
\* coroutine does not await, so the event loop stays with it
Call(r, call) ==
  /\ outbound' = [outbound EXCEPT ![r] = Append(@, call)]
  /\ pc' = [pc EXCEPT ![r] = call.provider \o "_call"]
  /\ loop' = Some(r)
  /\ UNCHANGED <<env, request, reply, response>>

\* the provider call of r ends with rep and the handler runs to its end
Resume(r, rep, result) ==
  /\ reply' = [reply EXCEPT ![r] = Some(rep)]
  /\ response' = [response EXCEPT ![r] = Some(Respond(result))]
  /\ pc' = [pc EXCEPT ![r] = "done"]
  /\ loop' = None
  /\ UNCHANGED <<env, request, outbound>>

health_check(r) ==
  /\ Scheduled(r, "health")
  /\ Finish(r, [status |-> 200, body |-> HealthBody])

suggest(r) ==
  /\ Scheduled(r, "suggest")
  /\ Finish(r, [status |-> 200, body |-> SuggestBody(request[r].body)])

\* chat up to its return or its provider call
chat(r) ==
  /\ Scheduled(r, "chat")
  /\ LET branch == ChatBranch(env.OPENAI_API_KEY, env.ANTHROPIC_API_KEY)
     IN  CASE branch = "fallback" -> Finish(r, ChatFallback)
           [] branch = "openai" -> Call(r, OpenAIChatCall(request[r].body))
           [] branch = "anthropic" -> Call(r, AnthropicChatCall(request[r].body))
           [] OTHER -> Finish(r, [status |-> 500, body |-> [detail |-> "Internal Server Error"]])

\* chat from the return of its provider call
chat_resume(r) ==
  /\ request[r].endpoint = "chat"
  /\ \/ /\ pc[r] = "openai_call"
        /\ \E rep \in OpenAIReplies : Resume(r, rep, OpenAIChatReturn(rep))
     \/ /\ pc[r] = "anthropic_call"
        /\ \E rep \in AnthropicReplies : Resume(r, rep, AnthropicChatReturn(rep))

\* analyze up to its return or its provider call
analyze(r) ==
  /\ Scheduled(r, "analyze")
  /\ IF ~Truthy(env.OPENAI_API_KEY)
     THEN Finish(r, AnalyzeNotConfigured(request[r].body))
     ELSE Call(r, AnalyzeCall(request[r].body))

\* analyze from the return of its provider call
analyze_resume(r) ==
  /\ request[r].endpoint = "analyze"
  /\ pc[r] = "openai_call"
  /\ \E rep \in OpenAIReplies : Resume(r, rep, AnalyzeReturn(request[r].body, rep))

Handle(r) ==
  \/ health_check(r)
  \/ suggest(r)
  \/ chat(r)
  \/ chat_resume(r)
  \/ analyze(r)
  \/ analyze_resume(r)

\* the server under concurrent clients
Next == \E r \in Reqs : Receive(r, FewRequests) \/ Handle(r)

Spec == Init /\ [][Next]_vars

\* the server handling one request, drawn from all request bodies
NextOne == Receive(1, AllRequests) \/ Handle(1)

SpecOne == Init /\ [][NextOne]_vars

(* ------------------------------ properties ------------------------------ *)

\* a credential is present when the variable is set to a non-empty value
Present(key) == key # None /\ key # Some("")

InCall(r) == pc[r] \in {"openai_call", "anthropic_call"}

\* the handler of r has run, to its provider call or to its end
Ran(r, endpoint) ==
  /\ request[r].endpoint = endpoint
  /\ InCall(r) \/ pc[r] = "done"

Providers(r) == {outbound[r][i].provider : i \in 1..Len(outbound[r])}

\* C1: the provider calls of a chat request are decided by which credentials
\* are present and by nothing else: none when neither is, exactly one to
\* OpenAI (and none to Anthropic) when OPENAI_API_KEY is, also when
\* ANTHROPIC_API_KEY is too, exactly one to Anthropic (and none to OpenAI)
\* when only ANTHROPIC_API_KEY is; never one to each, whatever the body.
C1_CallsByCredentials ==
  \A r \in Reqs :
    /\ request[r].endpoint = "chat" /\ ~Ran(r, "chat") => outbound[r] = <<>>
    /\ Ran(r, "chat") =>
         /\ Len(outbound[r]) <= 1
         /\ ~Present(env.OPENAI_API_KEY) /\ ~Present(env.ANTHROPIC_API_KEY)
              => outbound[r] = <<>>
         /\ Present(env.OPENAI_API_KEY)
              => Len(outbound[r]) = 1 /\ Providers(r) = {"openai"}
         /\ ~Present(env.OPENAI_API_KEY) /\ Present(env.ANTHROPIC_API_KEY)
              => Len(outbound[r]) = 1 /\ Providers(r) = {"anthropic"}

\* both credentials present, a chat request answered after one OpenAI call
C1_Witness ==
  \E r \in Reqs :
    /\ pc[r] = "done" /\ request[r].endpoint = "chat"
    /\ Present(env.OPENAI_API_KEY) /\ Present(env.ANTHROPIC_API_KEY)
    /\ Len(outbound[r]) = 1 /\ outbound[r][1].provider = "openai"

\* C2: with neither credential present, every chat request is answered 200
\* with model "fallback", usage null and the fixed configuration-needed
\* content, whatever its messages, model, temperature and max_tokens.
C2_Fallback ==
  \A r \in Reqs :
    (/\ Ran(r, "chat")
     /\ ~Present(env.OPENAI_API_KEY) /\ ~Present(env.ANTHROPIC_API_KEY))
    => /\ pc[r] = "done"
       /\ response[r] # None
       /\ response[r][1].status = 200
       /\ response[r][1].body.model = "fallback"
       /\ response[r][1].body.usage = None
       /\ response[r][1].body.content = FALLBACK_CONTENT

\* no credential, and a chat request with two messages, a model and
\* max_tokens of its own has been answered
C2_Witness ==
  \E r \in Reqs :
    /\ pc[r] = "done" /\ request[r].endpoint = "chat"
    /\ ~Present(env.OPENAI_API_KEY) /\ ~Present(env.ANTHROPIC_API_KEY)
    /\ Len(request[r].body.messages) = 2
    /\ request[r].body.model = Some("gpt-3.5-turbo")
    /\ request[r].body.max_tokens = Some(50)
    /\ response[r] # None

\* the provider call raised, or shaping its reply does (no first choice or
\* content block to index)
Failed(rep) ==
  \/ rep.raised # None
  \/ "choices" \in DOMAIN rep /\ rep.choices = <<>>
  \/ "content" \in DOMAIN rep /\ rep.content = <<>>

\* str(e) of that error
ErrorMessage(rep) ==
  IF rep.raised # None THEN rep.raised[1] ELSE "list index out of range"

\* C3: when the provider call of a chat or analyze request, or the shaping of
\* its reply, raises, the request ends with status 500 and a body that is
\* only the detail, equal to the error's message; the handler has made that
\* one call and no other.
C3_FailureIs500 ==
  \A r \in Reqs :
    (/\ pc[r] = "done"
     /\ request[r].endpoint \in {"chat", "analyze"}
     /\ reply[r] # None
     /\ Failed(reply[r][1]))
    => /\ response[r] = Some([status |-> 500,
                              body |-> [detail |-> ErrorMessage(reply[r][1])]])
       /\ Len(outbound[r]) = 1

\* an analyze request whose provider call raised has been answered
C3_Witness ==
  \E r \in Reqs :
    /\ pc[r] = "done" /\ request[r].endpoint = "analyze"
    /\ reply[r] # None /\ reply[r][1].raised = Some("Connection error.")
    /\ response[r] # None /\ response[r][1].status = 500

\* C4: with no OpenAI credential, analyze returns at once the fixed
\* configuration-needed result and the request's task, and calls no provider,
\* also when the Anthropic credential is present.
C4_AnalyzeNotConfigured ==
  \A r \in Reqs :
    (Ran(r, "analyze") /\ ~Present(env.OPENAI_API_KEY))
    => /\ pc[r] = "done"
       /\ outbound[r] = <<>>
       /\ reply[r] = None
       /\ response[r] = Some([status |-> 200,
                              body |-> [result |-> ANALYZE_NOT_CONFIGURED,
                                        task |-> request[r].body.task]])

\* only the Anthropic credential is present and an analyze request with a
\* task other than the default has been answered
C4_Witness ==
  \E r \in Reqs :
    /\ pc[r] = "done" /\ request[r].endpoint = "analyze"
    /\ ~Present(env.OPENAI_API_KEY) /\ Present(env.ANTHROPIC_API_KEY)
    /\ request[r].body.task = "classify"
    /\ response[r] # None

\* the template of a task, filled with the text
Template(task, text) ==
  CASE task = "summarize" -> "Resuma o seguinte texto de forma concisa:\n\n" \o text
    [] task = "extract" -> "Extraia as informacoes principais do seguinte texto:\n\n" \o text
    [] task = "classify" -> "Classifique o seguinte texto por categoria e sentimento:\n\n" \o text

\* C5: with the OpenAI credential present, the user prompt analyze sends is
\* the task's own template for summarize, extract and classify, and for any
\* other task the prompt built for "summarize" on the same text; a returned
\* AnalyzeResponse carries the request's own task.
C5_UnknownTaskSummarizes ==
  \A r \in Reqs :
    (Ran(r, "analyze") /\ Present(env.OPENAI_API_KEY))
    => LET req == request[r].body
           sent == outbound[r][1].messages[2]
       IN  /\ Len(outbound[r]) = 1
           /\ sent.role = "user"
           /\ sent.content =
                IF req.task \in {"summarize", "extract", "classify"}
                THEN Template(req.task, req.text)
                ELSE Template("summarize", req.text)
           /\ (pc[r] = "done" /\ response[r][1].status = 200)
                => response[r][1].body.task = req.task

\* an analyze request with task "unknown" has been answered 200
C5_Witness ==
  \E r \in Reqs :
    /\ pc[r] = "done" /\ request[r].endpoint = "analyze"
    /\ Present(env.OPENAI_API_KEY)
    /\ request[r].body.task = "unknown" /\ request[r].body.text = "long text"
    /\ response[r] # None /\ response[r][1].status = 200

IsTurn(m) == m.role # "system"

\* C6: with only the Anthropic credential present, the turns chat forwards
\* are the request's messages without those of role "system", the others in
\* their order and unchanged; the persona goes in the system parameter and
\* the model is the hardcoded one whatever the request's model.
C6_AnthropicTurns ==
  \A r \in Reqs :
    (/\ Ran(r, "chat")
     /\ ~Present(env.OPENAI_API_KEY) /\ Present(env.ANTHROPIC_API_KEY))
    => LET call == outbound[r][1]
       IN  /\ Len(outbound[r]) = 1
           /\ call.messages = SelectSeq(request[r].body.messages, IsTurn)
           /\ \A i \in 1..Len(call.messages) : call.messages[i].role # "system"
           /\ call.system = ANTHROPIC_PERSONA
           /\ call.model = "claude-3-sonnet-20240229"

\* a chat request with a system message between two turns and a model of its
\* own went to Anthropic
C6_Witness ==
  \E r \in Reqs :
    /\ Ran(r, "chat")
    /\ ~Present(env.OPENAI_API_KEY) /\ Present(env.ANTHROPIC_API_KEY)
    /\ Len(request[r].body.messages) = 2
    /\ request[r].body.messages[1].role = "system"
    /\ request[r].body.messages[2].role = "user"
    /\ request[r].body.model = Some("gpt-3.5-turbo")
    /\ Len(outbound[r]) = 1 /\ Len(outbound[r][1].messages) = 1

\* C7: while the provider call of one request is in flight, any other
\* pending request can be handled.
C7_NonBlocking ==
  \A r, q \in Reqs :
    (InCall(r) /\ pc[q] = "pending") => ENABLED Handle(q)

OpenAIForwards(r) ==
  LET req == request[r].body
      call == outbound[r][1]
  IN  /\ Len(outbound[r]) = 1
      /\ call.messages = <<[role |-> "system", content |-> OPENAI_PERSONA]>> \o req.messages
      /\ call.temperature = req.temperature
      /\ call.max_tokens = req.max_tokens

\* C9 as claimed: on the OpenAI path chat sends the persona followed by all
\* the request's messages, its temperature and max_tokens, and its model,
\* "gpt-4" when the model is unset.
C9_Original ==
  \A r \in Reqs :
    (Ran(r, "chat") /\ Present(env.OPENAI_API_KEY))
    => /\ OpenAIForwards(r)
       /\ outbound[r][1].model =
            IF request[r].body.model = None THEN "gpt-4"
            ELSE request[r].body.model[1]

\* C9 amended: the same, with "gpt-4" sent when the model is unset (null) or
\* the empty string.
C9_OpenAIForwards ==
  \A r \in Reqs :
    (Ran(r, "chat") /\ Present(env.OPENAI_API_KEY))
    => /\ OpenAIForwards(r)
       /\ outbound[r][1].model =
            IF request[r].body.model \in {None, Some("")} THEN "gpt-4"
            ELSE request[r].body.model[1]

\* a chat request with a system message of its own and an empty model went
\* to OpenAI
C9_Witness ==
  \E r \in Reqs :
    /\ Ran(r, "chat") /\ Present(env.OPENAI_API_KEY)
    /\ Len(request[r].body.messages) = 2
    /\ request[r].body.messages[2].role = "system"
    /\ request[r].body.model = Some("")
    /\ Len(outbound[r]) = 1 /\ Len(outbound[r][1].messages) = 3

\* two answered requests with the same endpoint and body whose provider
\* calls, if any, ended the same way have the same response
SameRequestSameResponse ==
  \A r, q \in Reqs :
    (/\ pc[r] = "done" /\ pc[q] = "done"
     /\ request[r].endpoint = request[q].endpoint
     /\ request[r].body = request[q].body
     /\ reply[r] = reply[q])
    => response[r] = response[q]

====
